---------------------------- MODULE Spec2Model ----------------------------
(***************************************************************************)
(* Model of the streaming decompilation pipeline of oracle-postprocess:    *)
(*   - the Protocol Client   (src/src/decompiler/mod.rs, websocket_handler) *)
(*   - the Streaming Producer, the Output Assembler and the Progress        *)
(*     Reporter (src/src/rbxlx.rs, process_rbxlx_file)                      *)
(* The remote service is the environment: it answers every submission it   *)
(* receives with one decompilation_result, in any order.                   *)
(***************************************************************************)
EXTENDS Integers, Sequences, FiniteSets, TLC

(***************************************************************************)
(* Bounds and program constants                                            *)
(***************************************************************************)

\* Number of structural events the Producer reads before Eof.
MaxNodes == 4

MiB == 1024 * 1024

\* const MAX_BYTES_IN_FLIGHT: u32 = 8 * 1024 * 1024
MAX_BYTES_IN_FLIGHT == 8 * MiB

\* The encoded payloads: four of half the cap, one of exactly the cap and one
\* a single byte over the cap.
Bytecodes == {"QUJD", "REVG", "TU5P", "VldY", "R0hJ", "SktM"}

\* A document draws its payloads from one of these sets.
Documents == {{"QUJD", "R0hJ", "SktM"}, {"QUJD", "REVG", "R0hJ"}}

\* A document of four different payloads that fit the cap one at a time.
DrainDocument == {"VldY", "REVG", "TU5P", "R0hJ"}

\* bytecode.len() as u32 of each payload (the strings stand for payloads of
\* these sizes).
BytecodeLen(b) ==
    CASE b = "QUJD" -> 4 * MiB
      [] b = "REVG" -> 4 * MiB
      [] b = "TU5P" -> 4 * MiB
      [] b = "VldY" -> 4 * MiB
      [] b = "R0hJ" -> 8 * MiB
      [] b = "SktM" -> 8 * MiB + 1

\* format!("{:x}", Sha256::digest(bytecode.as_bytes())): a different digest
\* for every payload, written here by its leading hex digits.
Sha256Hex(b) ==
    CASE b = "QUJD" -> "7a1f"
      [] b = "REVG" -> "03c9"
      [] b = "TU5P" -> "51ae"
      [] b = "VldY" -> "9c07"
      [] b = "R0hJ" -> "e45b"
      [] b = "SktM" -> "b8d2"

Hashes == {Sha256Hex(b) : b \in Bytecodes}

\* What the service may answer for a payload: the success flag and the data
\* field of its decompilation_result.  The first payload decompiles or fails
\* from one submission to the next, the second always fails.
ServiceResults(b) ==
    CASE b = "QUJD" -> {[success |-> TRUE, data |-> "print(1)"],
                        [success |-> FALSE, data |-> "timed out"]}
      [] b = "REVG" -> {[success |-> FALSE, data |-> "bad bytecode"]}
      [] b = "TU5P" -> {[success |-> TRUE, data |-> "return 1"]}
      [] b = "VldY" -> {[success |-> TRUE, data |-> "return 4"]}
      [] b = "R0hJ" -> {[success |-> TRUE, data |-> "return 2"]}
      [] b = "SktM" -> {[success |-> TRUE, data |-> "return 3"]}

\* Result<String, String>
Ok(data) == [tag |-> "Ok", val |-> data]
Err(data) == [tag |-> "Err", val |-> data]
NoResult == [tag |-> "None", val |-> ""]

\* format!("bytecode too large ({:.2} mb) exceeds 8mb limit", len / 1024 / 1024)
\* for the only oversized payload of the model (8 MiB + 1 byte prints 8.00).
SizeLimitError(bytecode_len) == "bytecode too large (8.00 mb) exceeds 8mb limit"

Ids == 1 .. MaxNodes

\* struct DecompilationRequest; tx is the identity of the oneshot channel.
DecompilationRequest(id, b) ==
    [tx |-> id, bytecode |-> b, bytecode_hash |-> Sha256Hex(b),
     bytecode_len |-> BytecodeLen(b)]

VARIABLES
    \* ---- process ----
    proc,               \* "running" | "exit1"  (std::process::exit(1))
    conn,               \* what the client saw of the connection:
                        \* "open" | "lost"
    \* ---- Protocol Client (websocket_handler) ----
    c_pc,               \* "select" | "drain" | "exited" | "panicked" | "killed"
    bytes_in_flight,
    pending_requests,   \* HashMap<String, (Vec<DecompilationRequest>, u32)>
    queued_requests,    \* Vec<DecompilationRequest>
    remaining_queue,    \* Vec local to the drain loop
    response,           \* the last decompilation_result handled
    decompile_rx,       \* contents of the unbounded submission channel
    decompile_tx,       \* TRUE while the Decompiler (the sender) is alive
    \* ---- remote service ----
    ws_unanswered,      \* bytecode -> number of Decompile messages not answered
    submissions,        \* bytecode -> number of Decompile messages ever sent
    \* ---- oneshot receipts ----
    receipt,            \* id -> [st, result, sends]
    \* ---- Producer / Assembler / Reporter (process_rbxlx_file) ----
    document,           \* the payloads the input document holds
    p_pc,               \* "reading" | "wait_progress" | "wait_writer"
                        \* | "returned" | "failed" | "panicked"
    nodes_read,
    total_scripts,
    decompiled_count,
    reader_done,
    write_rx,           \* contents of the ToWrite channel
    write_tx,           \* TRUE while the Producer holds the sender
    w_pc,               \* "running" | "done" | "panicked"
    written,            \* what the Assembler wrote, in order
    prog_pc,            \* "running" | "stopped"
    \* ---- the text of one CData node on its way through the pipeline ----
    cdata_string,       \* the node's text as the Producer read it
    to_write,           \* the ToWrite item the Producer emitted for it
    xml_out             \* the event the Assembler wrote for it

vars == <<proc, conn, c_pc, bytes_in_flight, pending_requests, queued_requests,
          remaining_queue, response, decompile_rx, decompile_tx, ws_unanswered,
          submissions, receipt, document, p_pc, nodes_read, total_scripts,
          decompiled_count, reader_done, write_rx, write_tx, w_pc, written,
          prog_pc, cdata_string, to_write, xml_out>>

clientVars == <<c_pc, bytes_in_flight, pending_requests, queued_requests,
                remaining_queue, response>>
pipeVars == <<document, p_pc, nodes_read, total_scripts, decompiled_count, reader_done,
              write_rx, write_tx, w_pc, written, prog_pc>>

contentVars == <<cdata_string, to_write, xml_out>>

\* No item emitted yet, no event written yet.
NoItem == [kind |-> "None"]
NoEvent == [kind |-> "None"]

NoResponse == [success |-> FALSE, data |-> "", input_hash |-> ""]
FreshReceipt == [st |-> "unused", result |-> NoResult, sends |-> 0]

\* The pipeline as process_rbxlx_file starts it on a connected Decompiler.
InitPipeline ==
    /\ proc = "running"
    /\ conn = "open"
    /\ c_pc = "select"
    /\ bytes_in_flight = 0
    /\ pending_requests = <<>>
    /\ queued_requests = <<>>
    /\ remaining_queue = <<>>
    /\ response = NoResponse
    /\ decompile_rx = <<>>
    /\ decompile_tx = TRUE
    /\ ws_unanswered = [b \in Bytecodes |-> 0]
    /\ submissions = [b \in Bytecodes |-> 0]
    /\ receipt = [i \in Ids |-> FreshReceipt]
    /\ p_pc = "reading"
    /\ nodes_read = 0
    /\ total_scripts = 0
    /\ decompiled_count = 0
    /\ reader_done = FALSE
    /\ write_rx = <<>>
    /\ write_tx = TRUE
    /\ w_pc = "running"
    /\ written = <<>>
    /\ prog_pc = "running"

\* The documents of Spec carry their payloads by name only; no node text is
\* followed.
Init ==
    /\ InitPipeline
    /\ document \in Documents
    /\ cdata_string = <<>>
    /\ to_write = NoItem
    /\ xml_out = NoEvent

(***************************************************************************)
(* Helpers: HashMap, oneshot channels, Vec                                 *)
(***************************************************************************)

\* HashMap::remove
MapRemove(m, k) == [h \in (DOMAIN m) \ {k} |-> m[h]]

\* HashMap::insert: an existing entry for k is replaced
MapInsert(m, k, v) == [h \in (DOMAIN m) \cup {k} |-> IF h = k THEN v ELSE m[h]]

\* The oneshot senders (tx) of a Vec of requests.
TxOf(reqs) == {reqs[i].tx : i \in 1 .. Len(reqs)}

\* The oneshot::Receiver of a placeholder lives in its ToWrite item until the
\* writer task has consumed the item; it is gone once the item was dropped.
RxAlive(id) ==
    \E i \in 1 .. Len(write_rx) :
        write_rx[i].kind = "DecompilationResult" /\ write_rx[i].rx = id

\* oneshot::Sender::send on a live receiver
OneshotSend(rc, id, result) ==
    [rc EXCEPT ![id] = [st |-> "sent", result |-> result, sends |-> @.sends + 1]]

\* Senders dropped without a value having been sent.
DropSenders(rc, ids) ==
    [i \in Ids |-> IF i \in ids /\ rc[i].st = "pending"
                   THEN [rc[i] EXCEPT !.st = "dropped"] ELSE rc[i]]

\* Every request the client task owns: dropped when the task unwinds.
ClientHeld ==
    UNION {TxOf(pending_requests[h].requests) : h \in DOMAIN pending_requests}
      \cup TxOf(queued_requests) \cup TxOf(remaining_queue) \cup TxOf(decompile_rx)

\* The byte costs recorded in the open PendingGroups, summed.
RECURSIVE SumSizes(_, _)
SumSizes(m, hs) ==
    IF hs = {} THEN 0
    ELSE LET h == CHOOSE x \in hs : TRUE
         IN  m[h].byte_size + SumSizes(m, hs \ {h})

PendingBytes == SumSizes(pending_requests, DOMAIN pending_requests)

\* for request in requests { request.tx.send(result.clone()).unwrap(); }
\* stops at the first member whose receiver is gone (unwrap panics).
RECURSIVE FanOut(_, _, _)
FanOut(reqs, result, rc) ==
    IF reqs = <<>> THEN [receipt |-> rc, panicked |-> FALSE]
    ELSE IF RxAlive(Head(reqs).tx)
         THEN FanOut(Tail(reqs), result, OneshotSend(rc, Head(reqs).tx, result))
         ELSE [receipt |-> rc, panicked |-> TRUE]

\* let result = if success { Ok(data) } else { Err(data) };
ResultOf(success, data) == IF success THEN Ok(data) ELSE Err(data)

\* request.bytecode_len > MAX_BYTES_IN_FLIGHT
ExceedsLimit(bytecode_len) == bytecode_len > MAX_BYTES_IN_FLIGHT

\* The admission check without the bytes already in flight.
OverBudget_IgnoresInFlight(current_bytes, bytecode_len) ==
    bytecode_len > MAX_BYTES_IN_FLIGHT

\* The admission check deferring a request that would fill the budget exactly.
OverBudget_AtCap(current_bytes, bytecode_len) ==
    current_bytes + bytecode_len >= MAX_BYTES_IN_FLIGHT

\* current_bytes + bytecode_len > MAX_BYTES_IN_FLIGHT
OverBudget(current_bytes, bytecode_len) ==
    current_bytes + bytecode_len > MAX_BYTES_IN_FLIGHT

\* The websocket_handler task unwinds: everything it owns is dropped.
ClientPanics(rc) ==
    /\ c_pc' = "panicked"
    /\ receipt' = DropSenders(rc, ClientHeld)
    /\ pending_requests' = <<>>
    /\ queued_requests' = <<>>
    /\ remaining_queue' = <<>>
    /\ decompile_rx' = <<>>

\* The failure is logged and the loop goes on.
ProcessExit_LogsOnly(cause) ==
    /\ conn' = cause
    /\ UNCHANGED <<proc, clientVars, decompile_rx, decompile_tx, ws_unanswered,
                   submissions, receipt, pipeVars, contentVars>>

\* std::process::exit(1): every task, channel and collection of the process
\* is gone.  What left the process stays: the messages sent, the values the
\* receipts delivered, the events written, the counters as last observed.
ProcessExit(cause) ==
    /\ proc' = "exit1"
    /\ conn' = cause
    /\ c_pc' = "killed" /\ p_pc' = "killed" /\ w_pc' = "killed"
    /\ prog_pc' = "killed"
    /\ bytes_in_flight' = 0
    /\ pending_requests' = <<>>
    /\ queued_requests' = <<>>
    /\ remaining_queue' = <<>>
    /\ response' = NoResponse
    /\ decompile_rx' = <<>> /\ decompile_tx' = FALSE
    /\ write_rx' = <<>> /\ write_tx' = FALSE
    /\ UNCHANGED <<ws_unanswered, submissions, receipt, written, document, contentVars,
                   nodes_read, total_scripts, decompiled_count, reader_done>>

(***************************************************************************)
(* Protocol Client: Decompiler::websocket_handler                          *)
(***************************************************************************)

\* write.send(Message::Text(..)).await succeeded: the service has one more
\* Decompile message to answer.
WsSend(b) ==
    /\ ws_unanswered' = [ws_unanswered EXCEPT ![b] = @ + 1]
    /\ submissions' = [submissions EXCEPT ![b] = @ + 1]

\* bytes_in_flight.fetch_add(len); pending_requests.insert(hash, (vec![request], len)):
\* the group an existing entry held is dropped with the replaced value.
OpenGroup(request) ==
    /\ bytes_in_flight' = bytes_in_flight + request.bytecode_len
    /\ pending_requests' =
           MapInsert(pending_requests, request.bytecode_hash,
                     [requests |-> <<request>>, byte_size |-> request.bytecode_len])
    /\ receipt' =
           IF request.bytecode_hash \in DOMAIN pending_requests
           THEN DropSenders(receipt,
                            TxOf(pending_requests[request.bytecode_hash].requests))
           ELSE receipt

\* A coalescing check that gives way to the budget check: the request joins
\* the open group only when the budget would have admitted it.
HasOpenGroup_IfBudgetAllows(request) ==
    /\ request.bytecode_hash \in DOMAIN pending_requests
    /\ ~ OverBudget(bytes_in_flight, request.bytecode_len)

\* if let Some((existing_requests, _)) =
\*     pending_requests.get_mut(&request.bytecode_hash)   (line 185)
HasOpenGroup(request) == request.bytecode_hash \in DOMAIN pending_requests

\* decompile_request = decompile_rx.recv() => Some(request)   (lines 175-216)
ClientRecvRequest ==
    /\ proc = "running" /\ c_pc = "select"
    /\ decompile_rx # <<>>
    /\ LET request == Head(decompile_rx) IN
       IF HasOpenGroup(request)
       THEN \* coalesce into the open group
            /\ pending_requests' =
                   [pending_requests EXCEPT ![request.bytecode_hash].requests =
                        Append(@, request)]
            /\ decompile_rx' = Tail(decompile_rx)
            /\ UNCHANGED <<proc, conn, c_pc, bytes_in_flight, queued_requests,
                           remaining_queue, response, ws_unanswered, submissions,
                           receipt, decompile_tx, pipeVars, contentVars>>
       ELSE IF ExceedsLimit(request.bytecode_len)
       THEN \* request.tx.send(Err(..)).unwrap()
            IF RxAlive(request.tx)
            THEN /\ receipt' = OneshotSend(receipt, request.tx,
                                   Err(SizeLimitError(request.bytecode_len)))
                 /\ decompile_rx' = Tail(decompile_rx)
                 /\ UNCHANGED <<proc, conn, c_pc, bytes_in_flight, pending_requests,
                                queued_requests, remaining_queue, response,
                                ws_unanswered, submissions, decompile_tx, pipeVars, contentVars>>
            ELSE /\ ClientPanics(receipt)
                 /\ UNCHANGED <<proc, conn, bytes_in_flight, response,
                                ws_unanswered, submissions, decompile_tx, pipeVars, contentVars>>
       ELSE IF OverBudget(bytes_in_flight, request.bytecode_len)
       THEN /\ queued_requests' = Append(queued_requests, request)
            /\ decompile_rx' = Tail(decompile_rx)
            /\ UNCHANGED <<proc, conn, c_pc, bytes_in_flight, pending_requests,
                           remaining_queue, response, ws_unanswered, submissions,
                           receipt, decompile_tx, pipeVars, contentVars>>
       ELSE \/ /\ WsSend(request.bytecode)
               /\ OpenGroup(request)
               /\ decompile_rx' = Tail(decompile_rx)
               /\ UNCHANGED <<proc, conn, c_pc, queued_requests, remaining_queue,
                              response, decompile_tx, pipeVars, contentVars>>
            \/ ProcessExit("lost")

\* decompile_request = decompile_rx.recv() => None   (lines 176-182)
ClientRecvClosed ==
    /\ proc = "running" /\ c_pc = "select"
    /\ decompile_rx = <<>> /\ ~decompile_tx
    /\ c_pc' = IF DOMAIN pending_requests = {} /\ queued_requests = <<>>
               THEN "exited" ELSE c_pc
    /\ UNCHANGED <<proc, conn, bytes_in_flight, pending_requests, queued_requests,
                   remaining_queue, response, decompile_rx, decompile_tx,
                   ws_unanswered, submissions, receipt, pipeVars, contentVars>>

\* message = read.next() => Close frame, read error or end of stream (lines 111-122)
ClientReadFailure ==
    /\ proc = "running" /\ c_pc = "select"
    /\ ProcessExit("lost")

\* queued_requests = remaining_queue, at the end of the drain loop (line 173)
DrainDone(queue, remaining) ==
    IF queue = <<>>
    THEN /\ queued_requests' = remaining
         /\ remaining_queue' = <<>>
         /\ c_pc' = "select"
    ELSE /\ queued_requests' = queue
         /\ remaining_queue' = remaining
         /\ c_pc' = "drain"

\* An ignored message that releases the whole in-flight budget.
IgnoreMessage_ReleasesBudget ==
    /\ bytes_in_flight' = 0
    /\ UNCHANGED <<c_pc, pending_requests, queued_requests, remaining_queue,
                   receipt, decompile_rx>>

\* `continue` on a message the loop has no use for (lines 123, 128, 133):
\* the loop goes back to select! with its state as it was.
IgnoreMessage ==
    UNCHANGED <<c_pc, bytes_in_flight, pending_requests, queued_requests,
                remaining_queue, receipt, decompile_rx>>

\* message = read.next() => a frame that is not text (`_ => continue`, line
\* 123) or a text that does not parse as a clientbound message (lines
\* 126-129).  The service may send one at any time.
ClientReadIgnored ==
    /\ proc = "running" /\ c_pc = "select"
    /\ IgnoreMessage
    /\ UNCHANGED <<proc, conn, response, decompile_tx, ws_unanswered,
                   submissions, pipeVars, contentVars>>

\* A release of the group's cost once for each of its members.
ReleasedBytes_PerMember(group) == group.byte_size * Len(group.requests)

\* bytes_in_flight.fetch_sub(request.byte_size, Ordering::Relaxed) (line 135)
ReleasedBytes(group) == group.byte_size

\* message = read.next() => a decompilation_result   (lines 126-148)
\* The service answers one of the Decompile messages it holds; input_hash is
\* the fingerprint of that submission.
ClientReadResult ==
    /\ proc = "running" /\ c_pc = "select"
    /\ \E b \in Bytecodes : \E answer \in ServiceResults(b) :
        /\ ws_unanswered[b] > 0
        /\ ws_unanswered' = [ws_unanswered EXCEPT ![b] = @ - 1]
        /\ LET input_hash == Sha256Hex(b)
               success == answer.success
               data == answer.data
           IN
           /\ response' = [success |-> success, data |-> data,
                           input_hash |-> input_hash]
           /\ IF input_hash \notin DOMAIN pending_requests
              THEN IgnoreMessage
              ELSE LET group == pending_requests[input_hash]
                       sent == FanOut(group.requests, ResultOf(success, data),
                                      receipt)
                   IN  /\ bytes_in_flight' = bytes_in_flight - ReleasedBytes(group)
                       /\ IF sent.panicked
                          THEN ClientPanics(sent.receipt)
                          ELSE /\ pending_requests' =
                                      MapRemove(pending_requests, input_hash)
                               /\ receipt' = sent.receipt
                               /\ DrainDone(queued_requests, <<>>)
                               /\ UNCHANGED decompile_rx
    /\ UNCHANGED <<proc, conn, decompile_tx, submissions, pipeVars, contentVars>>

\* A drain that ends at the first request that does not fit.
KeepQueued_EndsDrain(queued_request, rest) ==
    DrainDone(<<>>, remaining_queue \o rest \o <<queued_request>>)

\* remaining_queue.push(queued_request); continue (lines 152-155)
KeepQueued(queued_request, rest) ==
    DrainDone(rest, Append(remaining_queue, queued_request))

\* A drain that takes the request at the front of the queue.
PopIndex_Front(queue) == 1

\* Vec::pop takes the element at the last position.
PopIndex(queue) == Len(queue)

\* One iteration of: while let Some(queued_request) = queued_requests.pop()
\* (lines 149-172)
ClientDrainStep ==
    /\ proc = "running" /\ c_pc = "drain"
    /\ LET i == PopIndex(queued_requests)
           queued_request == queued_requests[i]
           rest == SubSeq(queued_requests, 1, i - 1)
                      \o SubSeq(queued_requests, i + 1, Len(queued_requests))
       IN  IF OverBudget(bytes_in_flight, queued_request.bytecode_len)
           THEN /\ KeepQueued(queued_request, rest)
                /\ UNCHANGED <<proc, conn, bytes_in_flight, pending_requests,
                               ws_unanswered, submissions, receipt, response,
                               decompile_rx, decompile_tx, pipeVars, contentVars>>
           ELSE \/ /\ WsSend(queued_request.bytecode)
                   /\ OpenGroup(queued_request)
                   /\ DrainDone(rest, remaining_queue)
                   /\ UNCHANGED <<proc, conn, response, decompile_rx,
                                  decompile_tx, pipeVars, contentVars>>
                \/ ProcessExit("lost")

(***************************************************************************)
(* Streaming Producer: the reader loop of process_rbxlx_file               *)
(***************************************************************************)

\* enum ToWrite
XmlEvent(n) == [kind |-> "XmlEvent", n |-> n, bytecode |-> "", rx |-> 0]
Placeholder(n, b, rx) ==
    [kind |-> "DecompilationResult", n |-> n, bytecode |-> b, rx |-> rx]

\* process_rbxlx_file unwinds or returns early: write_tx is dropped.
ProducerPanics ==
    /\ p_pc' = "panicked"
    /\ write_tx' = FALSE

\* write_tx.send(item).unwrap()
EmitItem(item) ==
    IF w_pc = "running"
    THEN /\ write_rx' = Append(write_rx, item)
         /\ UNCHANGED <<p_pc, write_tx>>
    ELSE /\ ProducerPanics
         /\ UNCHANGED write_rx

\* Ok(e) => write_tx.send(ToWrite::XmlEvent(e.into_owned())).unwrap()
\* (lines 160-162; a CData node without the marker takes the same path,
\* lines 122-127)
ReadXmlEvent ==
    /\ proc = "running" /\ p_pc = "reading"
    /\ nodes_read < MaxNodes
    /\ nodes_read' = nodes_read + 1
    /\ EmitItem(XmlEvent(nodes_read + 1))
    /\ UNCHANGED <<proc, conn, clientVars, decompile_rx, decompile_tx,
                   ws_unanswered, submissions, receipt, document, contentVars, total_scripts,
                   decompiled_count, reader_done, w_pc, written, prog_pc>>

\* The CData branch for a node whose payload is b: count the script, build
\* the request, decompile_batch(vec![request]).await.unwrap(), emit the
\* placeholder (lines 129-158).  decompile_batch only pushes the request on
\* the unbounded channel (lines 221-229).
ReadCData(b) ==
    LET id == nodes_read + 1
        request == DecompilationRequest(id, b)
    IN  /\ nodes_read' = id
        /\ total_scripts' = total_scripts + 1
        /\ IF c_pc \in {"exited", "panicked"}
           THEN \* decompile_batch(..).await.unwrap(): the receiver is gone
                /\ ProducerPanics
                /\ receipt' = [receipt EXCEPT ![id].st = "dropped"]
                /\ UNCHANGED <<decompile_rx, write_rx>>
           ELSE /\ decompile_rx' = Append(decompile_rx, request)
                /\ receipt' = [receipt EXCEPT ![id].st = "pending"]
                /\ EmitItem(Placeholder(id, b, id))

\* A producer that submits the way decompile_single does (send, then
\* rx.await): it reads on only when no receipt is pending.
ReadPayloadNode_AwaitsResult ==
    /\ proc = "running" /\ p_pc = "reading"
    /\ nodes_read < MaxNodes
    /\ \A i \in Ids : receipt[i].st # "pending"
    /\ \E b \in document : ReadCData(b)
    /\ UNCHANGED <<proc, conn, clientVars, decompile_tx, ws_unanswered,
                   submissions, document, contentVars, decompiled_count, reader_done, w_pc, written,
                   prog_pc>>

\* Ok(Event::CData(bob)) with the marker: lines 113-159
ReadPayloadNode ==
    /\ proc = "running" /\ p_pc = "reading"
    /\ nodes_read < MaxNodes
    /\ \E b \in document : ReadCData(b)
    /\ UNCHANGED <<proc, conn, clientVars, decompile_tx, ws_unanswered,
                   submissions, document, contentVars, decompiled_count, reader_done, w_pc, written,
                   prog_pc>>

\* Ok(Event::Eof) => break; reader_done.store(true)   (lines 112, 173)
ReadEof ==
    /\ proc = "running" /\ p_pc = "reading"
    /\ reader_done' = TRUE
    /\ p_pc' = "wait_progress"
    /\ UNCHANGED <<proc, conn, clientVars, decompile_rx, decompile_tx,
                   ws_unanswered, submissions, receipt, document, contentVars, nodes_read, total_scripts,
                   decompiled_count, write_rx, write_tx, w_pc, written, prog_pc>>

\* Err(e) => return Err(e.into())   (lines 163-166)
ReadError ==
    /\ proc = "running" /\ p_pc = "reading"
    /\ p_pc' = "failed"
    /\ write_tx' = FALSE
    /\ UNCHANGED <<proc, conn, clientVars, decompile_rx, decompile_tx,
                   ws_unanswered, submissions, receipt, document, contentVars, nodes_read, total_scripts,
                   decompiled_count, reader_done, write_rx, w_pc, written,
                   prog_pc>>

\* progress_handle.await?; drop(write_tx)   (lines 174-176)
ProgressJoined ==
    /\ proc = "running" /\ p_pc = "wait_progress"
    /\ prog_pc = "stopped"
    /\ write_tx' = FALSE
    /\ p_pc' = "wait_writer"
    /\ UNCHANGED <<proc, conn, clientVars, decompile_rx, decompile_tx,
                   ws_unanswered, submissions, receipt, document, contentVars, nodes_read, total_scripts,
                   decompiled_count, reader_done, write_rx, w_pc, written,
                   prog_pc>>

\* writer_handle.await?; Ok(())   (lines 177-179)
WriterJoined ==
    /\ proc = "running" /\ p_pc = "wait_writer"
    /\ w_pc \in {"done", "panicked"}
    /\ p_pc' = IF w_pc = "done" THEN "returned" ELSE "failed"
    /\ UNCHANGED <<proc, conn, clientVars, decompile_rx, decompile_tx,
                   ws_unanswered, submissions, receipt, document, contentVars, nodes_read, total_scripts,
                   decompiled_count, reader_done, write_rx, write_tx, w_pc,
                   written, prog_pc>>

\* The caller drops the Decompiler, and with it decompile_tx, once
\* process_rbxlx_file no longer borrows it.
DropDecompiler ==
    /\ proc = "running" /\ p_pc \in {"returned", "failed", "panicked"}
    /\ decompile_tx
    /\ decompile_tx' = FALSE
    /\ UNCHANGED <<proc, conn, clientVars, decompile_rx, ws_unanswered,
                   submissions, receipt, document, contentVars, pipeVars, contentVars>>

(***************************************************************************)
(* Output Assembler: the writer task of process_rbxlx_file                 *)
(***************************************************************************)

\* rx.await has a value to return: the sender sent or was dropped.
ReceiptReady(id) == receipt[id].st \in {"sent", "dropped"}

\* A writer that writes the first pass-through event of the channel without
\* waiting for the placeholders queued before it.
WriterXmlEvent_SkipsAhead ==
    /\ proc = "running" /\ w_pc = "running"
    /\ \E i \in 1 .. Len(write_rx) :
        /\ write_rx[i].kind = "XmlEvent"
        /\ \A j \in 1 .. (i - 1) : write_rx[j].kind # "XmlEvent"
        /\ written' = Append(written, [kind |-> "XmlEvent", n |-> write_rx[i].n,
                                       bytecode |-> "", result |-> NoResult])
        /\ write_rx' = SubSeq(write_rx, 1, i - 1)
                           \o SubSeq(write_rx, i + 1, Len(write_rx))
    /\ UNCHANGED <<proc, conn, clientVars, decompile_rx, decompile_tx,
                   ws_unanswered, submissions, receipt, document, contentVars, p_pc, nodes_read,
                   total_scripts, decompiled_count, reader_done, write_tx, w_pc,
                   prog_pc>>

\* A writer that counts every item it writes.
WriterXmlEvent_Counts ==
    /\ proc = "running" /\ w_pc = "running"
    /\ write_rx # <<>> /\ Head(write_rx).kind = "XmlEvent"
    /\ written' = Append(written, [kind |-> "XmlEvent", n |-> Head(write_rx).n,
                                   bytecode |-> "", result |-> NoResult])
    /\ write_rx' = Tail(write_rx)
    /\ decompiled_count' = decompiled_count + 1
    /\ UNCHANGED <<proc, conn, clientVars, decompile_rx, decompile_tx,
                   ws_unanswered, submissions, receipt, document, contentVars, p_pc, nodes_read,
                   total_scripts, reader_done, write_tx, w_pc,
                   prog_pc>>

\* ToWrite::XmlEvent(e) => writer.write_event(e)   (lines 44-46)
WriterXmlEvent ==
    /\ proc = "running" /\ w_pc = "running"
    /\ write_rx # <<>> /\ Head(write_rx).kind = "XmlEvent"
    /\ written' = Append(written, [kind |-> "XmlEvent", n |-> Head(write_rx).n,
                                   bytecode |-> "", result |-> NoResult])
    /\ write_rx' = Tail(write_rx)
    /\ UNCHANGED <<proc, conn, clientVars, decompile_rx, decompile_tx,
                   ws_unanswered, submissions, receipt, document, contentVars, p_pc, nodes_read,
                   total_scripts, decompiled_count, reader_done, write_tx, w_pc,
                   prog_pc>>

\* ToWrite::DecompilationResult => rx.await.unwrap(), format, count, write
\* (lines 47-62)
WriterResolve ==
    /\ proc = "running" /\ w_pc = "running"
    /\ write_rx # <<>> /\ Head(write_rx).kind = "DecompilationResult"
    /\ ReceiptReady(Head(write_rx).rx)
    /\ IF receipt[Head(write_rx).rx].st = "sent"
       THEN /\ written' =
                   Append(written, [kind |-> "CData", n |-> Head(write_rx).n,
                                    bytecode |-> Head(write_rx).bytecode,
                                    result |-> receipt[Head(write_rx).rx].result])
            /\ decompiled_count' = decompiled_count + 1
            /\ write_rx' = Tail(write_rx)
            /\ UNCHANGED w_pc
       ELSE \* RecvError: unwrap panics, the task and its channel are dropped
            /\ w_pc' = "panicked"
            /\ write_rx' = <<>>
            /\ UNCHANGED <<written, decompiled_count>>
    /\ UNCHANGED <<proc, conn, clientVars, decompile_rx, decompile_tx,
                   ws_unanswered, submissions, receipt, document, contentVars, p_pc, nodes_read,
                   total_scripts, reader_done, write_tx, prog_pc>>

\* A writer that flushes as soon as the Producer has closed its stream,
\* whatever is still queued in the channel.
WriterFlush_OnClose ==
    /\ proc = "running" /\ w_pc = "running"
    /\ ~write_tx
    /\ w_pc' = "done"
    /\ UNCHANGED <<proc, conn, clientVars, decompile_rx, decompile_tx,
                   ws_unanswered, submissions, receipt, document, contentVars, p_pc, nodes_read,
                   total_scripts, decompiled_count, reader_done, write_rx,
                   write_tx, written, prog_pc>>

\* write_rx.recv() => None; buf_writer.flush()   (lines 42, 66-69)
WriterFlush ==
    /\ proc = "running" /\ w_pc = "running"
    /\ write_rx = <<>> /\ ~write_tx
    /\ w_pc' = "done"
    /\ UNCHANGED <<proc, conn, clientVars, decompile_rx, decompile_tx,
                   ws_unanswered, submissions, receipt, document, contentVars, p_pc, nodes_read,
                   total_scripts, decompiled_count, reader_done, write_rx,
                   write_tx, written, prog_pc>>

(***************************************************************************)
(* Progress Reporter: the progress task of process_rbxlx_file              *)
(***************************************************************************)

\* interval.tick().await; ...; if is_reader_done && decompiled >= total
\* && total > 0 { break; }   (lines 83-101)
ProgressTick ==
    /\ proc = "running" /\ prog_pc = "running"
    /\ prog_pc' = IF reader_done /\ decompiled_count >= total_scripts
                     /\ total_scripts > 0
                  THEN "stopped" ELSE prog_pc
    /\ UNCHANGED <<proc, conn, clientVars, decompile_rx, decompile_tx,
                   ws_unanswered, submissions, receipt, document, contentVars, p_pc, nodes_read,
                   total_scripts, decompiled_count, reader_done, write_rx,
                   write_tx, w_pc, written>>

Next ==
    \/ ClientRecvRequest
    \/ ClientRecvClosed
    \/ ClientReadFailure
    \/ ClientReadIgnored
    \/ ClientReadResult
    \/ ClientDrainStep
    \/ ReadXmlEvent
    \/ ReadPayloadNode
    \/ ReadEof
    \/ ReadError
    \/ ProgressJoined
    \/ WriterJoined
    \/ DropDecompiler
    \/ WriterXmlEvent
    \/ WriterResolve
    \/ WriterFlush
    \/ ProgressTick

Spec == Init /\ [][Next]_vars

\* The pipeline on a document whose payloads are all different, so that four
\* requests can be in flight or deferred at once.
DrainInit ==
    /\ InitPipeline
    /\ document = DrainDocument
    /\ cdata_string = <<>>
    /\ to_write = NoItem
    /\ xml_out = NoEvent

DrainSpec == DrainInit /\ [][Next]_vars

(***************************************************************************)
(* The text of one CData node: marker search, request, formatting          *)
(* (src/src/rbxlx.rs, producer loop lines 113-159, writer task 42-62)      *)
(***************************************************************************)

\* Longest node text followed, in pieces.
MaxLen == 5

\* let bytecode_start = "-- Bytecode (Base64):\n-- ";
bytecode_start == "-- Bytecode (Base64):\n-- "

\* A node text is a sequence of pieces: the marker, a newline, an encoded
\* payload, other text.  The string it stands for is their concatenation.
Pieces == {bytecode_start, "\n", "QUJD", "local x"}

Texts == UNION {[1 .. n -> Pieces] : n \in 0 .. MaxLen}

\* The outcomes a receipt may deliver for the node.
ContentResults ==
    {Ok("print(1)"), Ok(""), Err("timed out"), Err("bad\nbytecode")}

RECURSIVE Concat(_)
Concat(s) == IF s = <<>> THEN "" ELSE Head(s) \o Concat(Tail(s))

\* Option::None of an offset
None == 0 - 1

\* str.find(pat): the offset of the first match, or None
RECURSIVE Find(_, _)
Find(s, pat) ==
    IF s = <<>> THEN None
    ELSE IF Head(s) = pat THEN 0
    ELSE LET r == Find(Tail(s), pat) IN IF r = None THEN None ELSE r + 1

\* &s[from..to]
Slice(s, from, to) == SubSeq(s, from + 1, to)

\* bytecode_start.len(), in pieces
MarkerLen == Len(<<bytecode_start>>)

\* A search for the marker that falls back to the start of the node.
BytecodePosition_OrStart(s) ==
    LET it == Find(s, bytecode_start) IN
    IF it = None THEN 0 ELSE it + MarkerLen

\* cdata_string.find(bytecode_start).map(|it| it + bytecode_start.len())
BytecodePosition(s) ==
    LET it == Find(s, bytecode_start) IN
    IF it = None THEN None ELSE it + MarkerLen

\* A payload that runs to the end of the node.
BytecodeEnd_EndOfNode(s, position) == Len(s)

\* cdata_string[position..].find('\n').map(|idx| position + idx)
\*     .unwrap_or(cdata_string.len())
BytecodeEnd(s, position) ==
    LET idx == Find(Slice(s, position, Len(s)), "\n") IN
    IF idx = None THEN Len(s) ELSE position + idx

\* format!("{:x}", Sha256::digest(bytecode.as_bytes())), kept symbolic
Sha256Of(bytecode) == "sha256(" \o bytecode \o ")"

\* match result { Ok(it) => format!("-- decompilation:\n{}", it),
\*                Err(it) => format!("-- decompilation failed:\n-- {}", it) };
\* format!("{}{}\n\n{}\n", header, bytecode, result)
FormattedResult(header, bytecode, result) ==
    LET text == IF result.tag = "Ok"
                THEN "-- decompilation:\n" \o result.val
                ELSE "-- decompilation failed:\n-- " \o result.val
    IN  header \o bytecode \o "\n\n" \o text \o "\n"

\* The pipeline about to read a CData node of any text.
ContentInit ==
    /\ InitPipeline
    /\ document \in Documents
    /\ cdata_string \in Texts
    /\ to_write = NoItem
    /\ xml_out = NoEvent

\* Ok(Event::CData(bob)) => ..., on the node text cdata_string (lines 113-159)
ProduceNode ==
    /\ proc = "running" /\ p_pc = "reading"
    /\ to_write = NoItem
    /\ nodes_read' = nodes_read + 1
    /\ LET position == BytecodePosition(cdata_string) IN
       IF position = None
       THEN \* forwarded as it is (lines 122-127)
            /\ to_write' = [kind |-> "XmlEvent", event |-> cdata_string]
            /\ UNCHANGED <<total_scripts, decompile_rx, receipt>>
       ELSE LET bytecode_end == BytecodeEnd(cdata_string, position)
                header == Concat(Slice(cdata_string, 0, position))
                bytecode == Concat(Slice(cdata_string, position, bytecode_end))
            IN  /\ total_scripts' = total_scripts + 1
                /\ decompile_rx' =
                       Append(decompile_rx,
                              [tx |-> 1, bytecode |-> bytecode,
                               bytecode_hash |-> Sha256Of(bytecode),
                               bytecode_len |-> Len(bytecode)])
                /\ receipt' = [receipt EXCEPT ![1].st = "pending"]
                /\ to_write' = [kind |-> "DecompilationResult",
                                header |-> header, bytecode |-> bytecode,
                                rx |-> 1]
    /\ UNCHANGED <<proc, conn, clientVars, decompile_tx, ws_unanswered,
                   submissions, document, p_pc, decompiled_count, reader_done,
                   write_rx, write_tx, w_pc, written, prog_pc, cdata_string,
                   xml_out>>

\* The client takes the request and, on the service's answer, fulfils its
\* receipt with Ok(data) or Err(data) (mod.rs lines 137-145).
ResolveNode ==
    /\ proc = "running" /\ c_pc = "select"
    /\ decompile_rx # <<>>
    /\ \E result \in ContentResults :
          receipt' = OneshotSend(receipt, Head(decompile_rx).tx, result)
    /\ decompile_rx' = Tail(decompile_rx)
    /\ UNCHANGED <<proc, conn, clientVars, decompile_tx, ws_unanswered,
                   submissions, pipeVars, contentVars>>

\* The writer task on the item of the node (lines 42-62)
WriteNode ==
    /\ proc = "running" /\ w_pc = "running"
    /\ to_write # NoItem /\ xml_out = NoEvent
    /\ IF to_write.kind = "XmlEvent"
       THEN /\ xml_out' = [kind |-> "CData", text |-> Concat(to_write.event)]
            /\ UNCHANGED decompiled_count
       ELSE /\ receipt[to_write.rx].st = "sent"
            /\ xml_out' =
                   [kind |-> "CData",
                    text |-> FormattedResult(to_write.header, to_write.bytecode,
                                             receipt[to_write.rx].result)]
            /\ decompiled_count' = decompiled_count + 1
    /\ UNCHANGED <<proc, conn, clientVars, decompile_rx, decompile_tx,
                   ws_unanswered, submissions, receipt, document, p_pc,
                   nodes_read, total_scripts, reader_done, write_rx, write_tx,
                   w_pc, written, prog_pc, cdata_string, to_write>>

ContentNext ==
    \/ ProduceNode
    \/ ResolveNode
    \/ WriteNode

ContentSpec == ContentInit /\ [][ContentNext]_vars

(***************************************************************************)
(* Properties                                                              *)
(***************************************************************************)

\* The payload nodes read so far whose payload is b, by their receipt.
ResolvedWith(b) ==
    {receipt[written[i].n].result :
        i \in {j \in 1 .. Len(written) :
                  written[j].kind = "CData" /\ written[j].bytecode = b}}

\* The number of resolutions the Assembler has written.
Resolutions ==
    Cardinality({i \in 1 .. Len(written) : written[i].kind = "CData"})

\* The step is the client reading a decompilation_result for bytecode b.
ReadsResultFor(b) ==
    /\ proc = "running" /\ c_pc = "select"
    /\ ws_unanswered'[b] = ws_unanswered[b] - 1

\* The step is the client taking the next request off the submission channel.
TakesRequest ==
    /\ proc = "running" /\ c_pc = "select"
    /\ decompile_rx # <<>>
    /\ proc' = "running"
    /\ \A b \in Bytecodes : ws_unanswered'[b] >= ws_unanswered[b]
    /\ \/ decompile_rx' = Tail(decompile_rx)
       \/ c_pc' = "panicked"

\* C1: in every reachable state the byte costs recorded in the open
\* PendingGroups sum to at most MAX_BYTES_IN_FLIGHT.
C1_PendingBytesWithinCap == PendingBytes <= MAX_BYTES_IN_FLIGHT

\* Two groups are open, they fill the budget exactly, and a request waits in
\* the DeferralQueue.
C1_Witness ==
    /\ Cardinality(DOMAIN pending_requests) = 2
    /\ PendingBytes = MAX_BYTES_IN_FLIGHT
    /\ queued_requests # <<>>

\* C2: requests sharing one fingerprint are served by one network submission,
\* whatever the arrival order and the budget, deferred requests included: no
\* fingerprint ever has two submissions awaiting their answer at once.
C2_OneSubmissionPerFingerprint ==
    \A b \in Bytecodes : ws_unanswered[b] <= 1

\* C3: no receipt is dropped unfulfilled and none is fulfilled twice.
C3_ReceiptFulfilledExactlyOnce ==
    \A id \in Ids :
        /\ receipt[id].st # "dropped"
        /\ receipt[id].sends <= 1

C5_EveryNodeResolved ==
    w_pc \in {"done", "panicked"} => Resolutions = total_scripts

\* C6: a request whose bytecode_len exceeds the cap is rejected locally when
\* the client takes it: its receipt is resolved with the size-limit error,
\* nothing is sent, it enters neither a PendingGroup nor the DeferralQueue and
\* the budget is unchanged; a request of exactly the cap is not rejected.
C6_OversizedRejectedLocally ==
    [][TakesRequest =>
         LET request == Head(decompile_rx) IN
         /\ request.bytecode_len > MAX_BYTES_IN_FLIGHT =>
               /\ receipt'[request.tx] =
                      [st |-> "sent", sends |-> 1,
                       result |-> Err(SizeLimitError(request.bytecode_len))]
               /\ submissions' = submissions
               /\ ws_unanswered' = ws_unanswered
               /\ pending_requests' = pending_requests
               /\ queued_requests' = queued_requests
               /\ bytes_in_flight' = bytes_in_flight
         /\ request.bytecode_len = MAX_BYTES_IN_FLIGHT =>
               receipt'[request.tx].st = "pending"
    ]_vars

\* C7: a deferred request is never left behind: while the loop waits for its
\* next event, the DeferralQueue is non-empty only if a PendingGroup is open
\* (whose response will drain the queue).
C7_DeferredImpliesOpenGroup ==
    (c_pc = "select" /\ queued_requests # <<>>) => DOMAIN pending_requests # {}

\* C8: on a decompilation_result whose input_hash matches an open group, the
\* group is removed, the budget is decremented by the recorded size and
\* exactly the members of the group are resolved, all with Ok(data) when
\* success is true and Err(data) when it is false.
C8_ResponseResolvesGroup ==
    [][\A b \in Bytecodes :
         (ReadsResultFor(b) /\ Sha256Hex(b) \in DOMAIN pending_requests) =>
            LET group == pending_requests[Sha256Hex(b)]
                result == IF response'.success THEN Ok(response'.data)
                          ELSE Err(response'.data)
            IN  /\ response'.input_hash = Sha256Hex(b)
                /\ Sha256Hex(b) \notin DOMAIN pending_requests'
                /\ bytes_in_flight' = bytes_in_flight - group.byte_size
                /\ \A id \in Ids :
                      IF id \in TxOf(group.requests)
                      THEN receipt'[id] =
                               [st |-> "sent", sends |-> 1, result |-> result]
                      ELSE receipt'[id] = receipt[id]
    ]_vars

\* C9: a connection failure is fatal at once (whenever the client has seen
\* the connection lost the process has exited), and from the exit on no
\* receipt changes, nothing is sent and nothing is admitted.
C9_ConnectionFailureIsFatal ==
    /\ [](conn # "open" => proc = "exit1")
    /\ [][proc' = "exit1" =>
            /\ receipt' = receipt
            /\ submissions' = submissions
            /\ ws_unanswered' = ws_unanswered
            /\ written' = written]_vars

\* The process has exited on a lost connection with one receipt fulfilled
\* and another still pending.
C9_Witness ==
    /\ proc = "exit1" /\ conn = "lost"
    /\ \E i, j \in Ids : receipt[i].st = "sent" /\ receipt[j].st = "pending"

\* C10: the loop exits only with the submission side closed and both the
\* PendingGroup map and the DeferralQueue empty; and once the submission side
\* is closed and drained and the service has answered every submission, both
\* are empty, so that the loop does exit.
C10_LoopExit ==
    /\ c_pc = "exited" =>
          /\ ~decompile_tx /\ decompile_rx = <<>>
          /\ DOMAIN pending_requests = {} /\ queued_requests = <<>>
    /\ (/\ proc = "running" /\ c_pc = "select"
        /\ ~decompile_tx /\ decompile_rx = <<>>
        /\ \A b \in Bytecodes : ws_unanswered[b] = 0) =>
          (DOMAIN pending_requests = {} /\ queued_requests = <<>>)

\* C11: the Producer never blocks on decompilation: while it is reading, its
\* next step (another event, another payload node with its submission and
\* placeholder, or the end of the document) can be taken in every state,
\* whatever the client and the service have or have not done.
C11_ProducerNeverBlocks ==
    (proc = "running" /\ p_pc = "reading") =>
        /\ ENABLED ReadEof
        /\ nodes_read < MaxNodes =>
               (ENABLED ReadPayloadNode /\ ENABLED ReadXmlEvent)

\* The whole document was read, every node a payload node, every placeholder
\* emitted and completion signaled, and no response has arrived yet.
C11_Witness ==
    /\ reader_done /\ p_pc = "wait_progress"
    /\ total_scripts = MaxNodes
    /\ Len(write_rx) = MaxNodes
    /\ response = NoResponse
    /\ \A b \in Bytecodes : ws_unanswered[b] = submissions[b]
    /\ \A i \in Ids : receipt[i].st = "pending"

\* C12: the Assembler has flushed only with the Producer's stream closed and
\* drained: every emitted item is written and every placeholder is resolved
\* at the flush, and stays so.
C12_FlushAfterDrain ==
    w_pc = "done" =>
        /\ ~write_tx /\ write_rx = <<>>
        /\ Len(written) = nodes_read
        /\ Resolutions = total_scripts
        /\ \A i \in 1 .. nodes_read : receipt[i].st \in {"unused", "sent"}

\* The output was flushed after a whole document with pass-through events
\* and at least two payload nodes.
C12_Witness ==
    /\ w_pc = "done"
    /\ Len(written) = MaxNodes
    /\ Resolutions >= 2 /\ Resolutions < MaxNodes

\* C13: once the Producer has signaled completion and the resolved count has
\* reached the discovered total, the Reporter's next tick stops it, for every
\* document, one without payload nodes (0 of 0) included.
C13_ReporterStops ==
    (proc = "running" /\ prog_pc = "running" /\ reader_done
        /\ decompiled_count >= total_scripts) =>
        ENABLED (ProgressTick /\ prog_pc' = "stopped")

\* C14: the Reporter has no effect on the pipeline: once the Producer has
\* signaled completion, closing the Assembler's input is its next step
\* whatever the state of the Reporter.
C14_ReporterHasNoEffect ==
    (proc = "running" /\ p_pc = "wait_progress") =>
        ENABLED (Next /\ proc' = "running" /\ ~write_tx')

\* C17: an inbound message that is not a result for an open PendingGroup is
\* ignored.  A frame that is not text or does not parse changes nothing at
\* all, whenever it arrives; a decompilation_result whose input_hash matches
\* no open group leaves the PendingGroup map, the DeferralQueue, the budget,
\* the receipts and the submissions as they were, and the loop keeps running.
C17_UnmatchedMessageIgnored ==
    /\ []((proc = "running" /\ c_pc = "select") =>
            /\ ENABLED ClientReadIgnored
            /\ ~ ENABLED (ClientReadIgnored /\ vars' # vars))
    /\ [][(/\ proc = "running" /\ c_pc = "select" /\ proc' = "running"
           /\ \E b \in Bytecodes :
                 /\ ws_unanswered'[b] = ws_unanswered[b] - 1
                 /\ Sha256Hex(b) \notin DOMAIN pending_requests)
          => /\ pending_requests' = pending_requests
             /\ queued_requests' = queued_requests
             /\ bytes_in_flight' = bytes_in_flight
             /\ receipt' = receipt
             /\ submissions' = submissions
             /\ c_pc' = "select"]_vars

\* The service answered both submissions made for one fingerprint, the
\* second answer found no open group (its group had been replaced), and a
\* request is still deferred.
C17_Witness ==
    /\ proc = "running" /\ c_pc = "select" /\ w_pc = "running"
    /\ queued_requests # <<>>
    /\ \E b \in Bytecodes :
          /\ submissions[b] = 2 /\ ws_unanswered[b] = 0
          /\ response.input_hash = Sha256Hex(b)
          /\ Sha256Hex(b) \notin DOMAIN pending_requests
          /\ \E i \in 1 .. Len(write_rx) :
                /\ write_rx[i].bytecode = b
                /\ receipt[write_rx[i].rx].st = "dropped"

\* C18: while the loop runs, bytes_in_flight equals the sum of the byte costs
\* recorded in the open PendingGroups (so it is 0 when no group is open).
C18_BudgetEqualsPendingBytes ==
    (proc = "running" /\ c_pc \in {"select", "drain"}) =>
        bytes_in_flight = PendingBytes

\* C19: whenever the client sends a submission and opens a group for a
\* fingerprint, no group for that fingerprint is open, and no step removes a
\* member from a group that stays open: opening a group never replaces one.
C19_OpenGroupNeverReplaced ==
    [][proc' = "running" /\ c_pc' # "panicked" =>
         /\ \A b \in Bytecodes :
                submissions'[b] > submissions[b] =>
                    Sha256Hex(b) \notin DOMAIN pending_requests
         /\ \A h \in DOMAIN pending_requests \cap DOMAIN pending_requests' :
                TxOf(pending_requests[h].requests)
                    \subseteq TxOf(pending_requests'[h].requests)
    ]_vars

\* C20: a new request with no open group for its fingerprint and a size of at
\* most the cap is deferred exactly when bytes_in_flight + size > cap (one
\* that brings the total to exactly the cap is sent).  Deferring sends
\* nothing and leaves the budget; otherwise the request is sent as a new
\* single-member PendingGroup and the budget grows by its size.  No request
\* in the DeferralQueue has been sent: it is in no group and its receipt is
\* pending.
C20_DeferIffOverBudget ==
    /\ [](\A q \in {queued_requests[i] : i \in 1 .. Len(queued_requests)}
                   \cup {remaining_queue[i] : i \in 1 .. Len(remaining_queue)} :
              /\ receipt[q.tx].st = "pending"
              /\ \A h \in DOMAIN pending_requests :
                     q.tx \notin TxOf(pending_requests[h].requests))
    /\ [][TakesRequest =>
            LET request == Head(decompile_rx)
                b == request.bytecode
                h == request.bytecode_hash
            IN  (h \notin DOMAIN pending_requests
                    /\ request.bytecode_len <= MAX_BYTES_IN_FLIGHT) =>
                IF bytes_in_flight + request.bytecode_len > MAX_BYTES_IN_FLIGHT
                THEN /\ queued_requests' = Append(queued_requests, request)
                     /\ submissions' = submissions
                     /\ ws_unanswered' = ws_unanswered
                     /\ bytes_in_flight' = bytes_in_flight
                     /\ pending_requests' = pending_requests
                ELSE /\ submissions' = [submissions EXCEPT ![b] = @ + 1]
                     /\ ws_unanswered' = [ws_unanswered EXCEPT ![b] = @ + 1]
                     /\ bytes_in_flight' =
                            bytes_in_flight + request.bytecode_len
                     /\ DOMAIN pending_requests' =
                            DOMAIN pending_requests \cup {h}
                     /\ pending_requests'[h] =
                            [requests |-> <<request>>,
                             byte_size |-> request.bytecode_len]
                     /\ \A g \in DOMAIN pending_requests :
                            pending_requests'[g] = pending_requests[g]
                     /\ queued_requests' = queued_requests
       ]_vars

\* A request of exactly the cap was sent on an empty budget and two later
\* requests are deferred behind it.
C20_Witness ==
    /\ proc = "running" /\ c_pc = "select"
    /\ bytes_in_flight = MAX_BYTES_IN_FLIGHT
    /\ DOMAIN pending_requests = {Sha256Hex("R0hJ")}
    /\ Len(queued_requests) >= 2

\* C15 (under ContentSpec): for a node whose text holds the marker, with H
\* the text up to and including the first marker and P the text from there
\* up to the next newline or the end of the node, the Assembler writes
\* H + P + "\n\n-- decompilation:\n" + text + "\n" on success(text) and
\* H + P + "\n\n-- decompilation failed:\n-- " + error + "\n" on
\* failure(error); nothing of the node after the payload line is written.
C15_ResolutionText ==
    (xml_out # NoEvent
        /\ \E i \in 1 .. Len(cdata_string) : cdata_string[i] = bytecode_start) =>
    \E i \in 1 .. Len(cdata_string) : \E k \in i .. Len(cdata_string) :
        /\ cdata_string[i] = bytecode_start
        /\ \A j \in 1 .. (i - 1) : cdata_string[j] # bytecode_start
        /\ \A j \in (i + 1) .. k : cdata_string[j] # "\n"
        /\ k = Len(cdata_string) \/ cdata_string[k + 1] = "\n"
        /\ LET H == Concat(SubSeq(cdata_string, 1, i))
               P == Concat(SubSeq(cdata_string, i + 1, k))
               outcome == receipt[1].result
           IN  /\ outcome.tag \in {"Ok", "Err"}
               /\ outcome.tag = "Ok" =>
                     xml_out.text =
                         H \o P \o "\n\n-- decompilation:\n" \o outcome.val \o "\n"
               /\ outcome.tag = "Err" =>
                     xml_out.text =
                         H \o P \o "\n\n-- decompilation failed:\n-- "
                           \o outcome.val \o "\n"

\* A resolution was written for a node with text before the marker, a
\* payload, and further content after the payload line, on a failure.
C15_Witness ==
    /\ xml_out # NoEvent
    /\ Len(cdata_string) = 5
    /\ cdata_string[1] = "local x" /\ cdata_string[2] = bytecode_start
    /\ cdata_string[3] = "QUJD" /\ cdata_string[4] = "\n"
    /\ cdata_string[5] = "local x"
    /\ receipt[1].result = Err("timed out")

\* C16 (under ContentSpec): a node whose text does not hold the marker is
\* forwarded to the Assembler unchanged and written as it was read: no
\* request is submitted, total_scripts is not incremented, no placeholder is
\* emitted, and the Producer keeps reading.
C16_UnmarkedNodeForwarded ==
    (to_write # NoItem
        /\ \A i \in 1 .. Len(cdata_string) : cdata_string[i] # bytecode_start) =>
        /\ to_write = [kind |-> "XmlEvent", event |-> cdata_string]
        /\ total_scripts = 0
        /\ decompile_rx = <<>>
        /\ \A id \in Ids : receipt[id] = FreshReceipt
        /\ proc = "running" /\ p_pc = "reading"
        /\ xml_out # NoEvent =>
              (xml_out = [kind |-> "CData", text |-> Concat(cdata_string)]
                  /\ decompiled_count = 0)

\* A node of several pieces without the marker was forwarded and written.
C16_Witness ==
    /\ xml_out # NoEvent
    /\ to_write.kind = "XmlEvent"
    /\ Len(cdata_string) >= 3
    /\ \E i \in 1 .. Len(cdata_string) : cdata_string[i] = "\n"

\* C21: a new request whose fingerprint has an open PendingGroup is appended
\* to that group, before the size-limit and budget checks and whatever the
\* budget: nothing is sent, and the budget, the recorded byte cost of the
\* group, the other groups, the DeferralQueue and the receipts are unchanged.
C21_CoalescedIntoOpenGroup ==
    [][TakesRequest =>
         LET request == Head(decompile_rx)
             h == request.bytecode_hash
         IN  h \in DOMAIN pending_requests =>
               /\ DOMAIN pending_requests' = DOMAIN pending_requests
               /\ pending_requests'[h].requests =
                      Append(pending_requests[h].requests, request)
               /\ pending_requests'[h].byte_size = pending_requests[h].byte_size
               /\ \A g \in DOMAIN pending_requests \ {h} :
                      pending_requests'[g] = pending_requests[g]
               /\ submissions' = submissions
               /\ ws_unanswered' = ws_unanswered
               /\ bytes_in_flight' = bytes_in_flight
               /\ queued_requests' = queued_requests
               /\ receipt' = receipt
               /\ c_pc' = "select"
    ]_vars

\* A group holds three requests while the budget is full: the second and
\* the third were coalesced where the budget check would have deferred them.
C21_Witness ==
    /\ proc = "running" /\ c_pc = "select"
    /\ bytes_in_flight = MAX_BYTES_IN_FLIGHT
    /\ \E h \in DOMAIN pending_requests :
          /\ Len(pending_requests[h].requests) = 3
          /\ pending_requests[h].byte_size = MAX_BYTES_IN_FLIGHT

\* C22: in every drain the deferred requests are examined from the most
\* recently deferred to the earliest deferred (requests are deferred in the
\* order of their tx): the request examined next was deferred after every
\* request still to examine, and every request the drain has examined and
\* left was deferred after those still to examine.
C22_DrainLastQueuedFirst ==
    c_pc = "drain" =>
        /\ \A i \in 1 .. Len(queued_requests) :
               queued_requests[i].tx <= queued_requests[Len(queued_requests)].tx
        /\ \A i \in 1 .. Len(queued_requests) :
               \A j \in 1 .. Len(remaining_queue) :
                   queued_requests[i].tx < remaining_queue[j].tx

\* C22, amended: every drain step examines the request at the last position
\* of queued_requests and leaves the others to examine in their order; a
\* request that does not fit is put behind those the drain has already left,
\* and when the drain ends the queue holds the requests it left in the order
\* it examined them.  New deferrals go to the end of the queue (C20), so the
\* next drain examines them last-queued first and then the requests left by
\* this drain in the reverse of the order in which this drain examined them.
C22_DrainFromLastPosition ==
    [][(/\ proc = "running" /\ c_pc = "drain" /\ proc' = "running"
        /\ (c_pc' # c_pc \/ queued_requests' # queued_requests)) =>
         LET n == Len(queued_requests)
             q == queued_requests[n]
             toExamine == IF c_pc' = "drain" THEN queued_requests' ELSE <<>>
             left == IF c_pc' = "drain" THEN remaining_queue'
                     ELSE queued_requests'
         IN  /\ toExamine = SubSeq(queued_requests, 1, n - 1)
             /\ c_pc' = "select" <=> n = 1
             /\ IF bytes_in_flight + q.bytecode_len > MAX_BYTES_IN_FLIGHT
                THEN /\ left = Append(remaining_queue, q)
                     /\ submissions' = submissions
                ELSE /\ left = remaining_queue
                     /\ submissions' =
                            [submissions EXCEPT ![q.bytecode] = @ + 1]
    ]_vars

\* A drain is about to examine the earlier deferred of two requests that an
\* earlier drain left in the queue.
C22_Witness ==
    /\ proc = "running" /\ c_pc = "drain"
    /\ remaining_queue = <<>>
    /\ Len(queued_requests) = 2
    /\ queued_requests[1].tx = 4 /\ queued_requests[2].tx = 3

\* C23: a drain examines every deferred request and does not stop at the
\* first one that does not fit: while the event loop waits for its next
\* event every request in the deferral queue would exceed the cap if added to
\* the in-flight budget, so the queue is non-empty only while the budget is
\* non-zero; and during a drain the same is true of every request the drain
\* has examined and left.
C23_QueuedRequestsDoNotFit ==
    proc = "running" =>
        /\ c_pc = "select" =>
              /\ \A i \in 1 .. Len(queued_requests) :
                     bytes_in_flight + queued_requests[i].bytecode_len
                        > MAX_BYTES_IN_FLIGHT
              /\ queued_requests # <<>> => bytes_in_flight > 0
        /\ c_pc = "drain" =>
              \A j \in 1 .. Len(remaining_queue) :
                  bytes_in_flight + remaining_queue[j].bytecode_len
                     > MAX_BYTES_IN_FLIGHT

\* A drain has left a request that does not fit and goes on to one that fits.
C23_Witness ==
    /\ proc = "running" /\ c_pc = "drain"
    /\ remaining_queue # <<>>
    /\ queued_requests # <<>>
    /\ bytes_in_flight > 0
    /\ bytes_in_flight
          + queued_requests[Len(queued_requests)].bytecode_len
             <= MAX_BYTES_IN_FLIGHT

\* C24: the resolved count (decompiled_count) never decreases, grows by
\* exactly one with every resolution written to the output and by nothing
\* else, and never exceeds the discovered count (total_scripts).
C24_ResolvedCount ==
    /\ [](/\ decompiled_count = Resolutions
          /\ decompiled_count <= total_scripts)
    /\ [][/\ decompiled_count' >= decompiled_count
          /\ decompiled_count' <= decompiled_count + 1
          /\ (decompiled_count' = decompiled_count + 1) <=>
                /\ Len(written') = Len(written) + 1
                /\ written'[Len(written')].kind = "CData"
          /\ total_scripts' >= total_scripts
       ]_vars

\* Both resolutions of a document of two payload nodes and two pass-through
\* events were written, after a pass-through event.
C24_Witness ==
    /\ total_scripts = 2 /\ decompiled_count = 2
    /\ Len(written) = 4
    /\ written[1].kind = "XmlEvent"
    /\ written[Len(written)].kind = "CData"

\* C25: the 32-bit budget arithmetic never wraps.  bytes_in_flight is between
\* 0 and MAX_BYTES_IN_FLIGHT in every state; a response subtracts the cost
\* of an open group, which is at most the counter; every request whose sum
\* bytes_in_flight + bytecode_len is evaluated (the next request taken when
\* it has no open group and is within the size limit, and every request a
\* drain examines) is no longer than the cap, so the sum is below 2^32; and
\* a request over the size limit is neither admitted nor deferred.
C25_BudgetArithmeticNeverWraps ==
    /\ [](/\ 0 <= bytes_in_flight
          /\ bytes_in_flight <= MAX_BYTES_IN_FLIGHT
          /\ \A h \in DOMAIN pending_requests :
                 pending_requests[h].byte_size <= bytes_in_flight
          /\ \A i \in 1 .. Len(queued_requests) :
                 /\ queued_requests[i].bytecode_len <= MAX_BYTES_IN_FLIGHT
                 /\ (bytes_in_flight + queued_requests[i].bytecode_len)
                        \div 65536 < 65536
          /\ (/\ proc = "running" /\ c_pc = "select" /\ decompile_rx # <<>>
              /\ ~HasOpenGroup(Head(decompile_rx))
              /\ Head(decompile_rx).bytecode_len <= MAX_BYTES_IN_FLIGHT)
             => (bytes_in_flight + Head(decompile_rx).bytecode_len)
                    \div 65536 < 65536)
    /\ [][/\ (proc' = "running" /\ bytes_in_flight' < bytes_in_flight) =>
                \E h \in DOMAIN pending_requests :
                    /\ bytes_in_flight' =
                          bytes_in_flight - pending_requests[h].byte_size
                    /\ bytes_in_flight' >= 0
          /\ (/\ TakesRequest
              /\ Head(decompile_rx).bytecode_len > MAX_BYTES_IN_FLIGHT)
             => /\ bytes_in_flight' = bytes_in_flight
                /\ \A i \in 1 .. Len(queued_requests') :
                       queued_requests'[i].tx # Head(decompile_rx).tx
                /\ submissions' = submissions
       ]_vars

\* After a response has released bytes, the counter is at the cap again and
\* the next request, of the size of the cap and with no open group, is about
\* to have its sum of 16 MiB evaluated.
C25_Witness ==
    /\ proc = "running" /\ c_pc = "select"
    /\ bytes_in_flight = MAX_BYTES_IN_FLIGHT
    /\ decompile_rx # <<>>
    /\ Head(decompile_rx).bytecode_len = MAX_BYTES_IN_FLIGHT
    /\ ~HasOpenGroup(Head(decompile_rx))
    /\ \E id \in Ids : receipt[id].st = "sent"

=============================================================================
